---------------------------- MODULE Spec2Model ----------------------------
(***************************************************************************)
(* The ecobee driver interface as exercised by its unit tests              *)
(* (services/core/MasterDriverAgent/tests/test_ecobee_driver.py).          *)
(*                                                                         *)
(* MockEcobee overrides the vendor-facing methods of ecobee.Interface      *)
(* (authorize_application, request_tokens, refresh_tokens,                 *)
(* get_data_remote, the config-store accessors); those are translated from *)
(* the test file.  The methods MockEcobee inherits (configure,             *)
(* update_authorization, get_thermostat_data, the response cache, the      *)
(* registers, get_point and _scrape_all) live in ecobee.py, which is not   *)
(* among the source files; they are modelled from the specification (a     *)
(* three-stage authorization handshake and a timestamp-gated response      *)
(* cache with one entry per URL) and from what the tests observe.          *)
(*                                                                         *)
(* Spec is the state machine of the authorization and data tests,          *)
(* SpecPoints that of the register and point tests, SpecTester that of     *)
(* the Tester agent (examples/TestAgent/tester/agent.py) under the         *)
(* platform's startup, and SpecTestAgent that of the periodic lookup of    *)
(* the TestAgent (examples/TestAgent/test/test.py).                        *)
(***************************************************************************)
EXTENDS Integers, Sequences, FiniteSets, TLC

VARIABLES
    self,   \* the instance: the MockEcobee, with the clock it reads (now) and
            \* the latest request_timestamp it ever stored (stored_max,
            \* history); in SpecTester, the Tester agent; in
            \* SpecTestAgent, the TestAgent with its output file
    last    \* history: the last call, the instance before it, its outcome

vars == <<self, last>>

---------------------------------------------------------------------------
(* Bounds of the model *)

\* The clock runs from 0 to MaxTime.
MaxTime == 4

\* The Tester agent is configured at most MaxConfigures times.
MaxConfigures == 3

\* TestAgent.lookup_data is followed for at most MaxRuns periodic runs.
MaxRuns == 3

---------------------------------------------------------------------------
(* Constants of the program *)

\* VALID_ECOBEE_CONFIG["DEVICE_ID"]
DEVICE_ID == 8675309

\* A second thermostat identifier, so that the path depends on the config.
OTHER_DEVICE_ID == DEVICE_ID + 1

\* VALID_ECOBEE_CONFIG["API_KEY"]
API_KEY == "TEST_KEY"

\* The URL the tests look up in the cache.
THERMOSTAT_URL == "https://api.ecobee.com/1/thermostat"

\* ecobee.AUTH_CONFIG_PATH, a template with one placeholder.
AUTH_CONFIG_PATH == "drivers/auth/ecobee_{}.json"

\* Seconds a cached thermostat response stays fresh (in clock ticks here).
UpdateFrequency == 2

\* Python's None, as a value comparable with the records below.
None == [none |-> TRUE]

\* AUTH_CONFIG_PATH.format(device_id)
Format(template, arg) == [template |-> template, arg |-> arg]

\* Interface.auth_config_path before configure.
NoPath == [template |-> "", arg |-> 0]

\* The equipment names of the tests.  A string that the interface takes apart
\* is a sequence of characters.
testEquip1 == <<"t", "e", "s", "t", "E", "q", "u", "i", "p", "1">>
testEquip3 == <<"t", "e", "s", "t", "E", "q", "u", "i", "p", "3">>

REMOTE_RESPONSE ==
    [thermostatList |-> <<
        [identifier |-> 8675309,
         settings |-> [setting1 |-> 0, setting2 |-> 1],
         runtime |-> [hold1 |-> 0, hold2 |-> 1],
         events |-> << [test1 |-> "test1", type |-> "program"],
                       [test2 |-> "test2", type |-> "vacation"] >>,
         equipmentStatus |-> testEquip1 \o <<",">> \o testEquip3] >>]

\* A registry entry is a record of its columns ("Point Name" is Point_Name).
VALID_ECOBEE_REGISTRY ==
    << [Point_Name |-> "hold1", Volttron_Point_Name |-> "testHold",
        Units |-> "%", Type |-> "hold",
        Writable |-> "True", Readable |-> "True"],
       [Point_Name |-> "setting1", Volttron_Point_Name |-> "testSetting",
        Units |-> "degC", Type |-> "setting",
        Writable |-> "False", Readable |-> "True"],
       [Point_Name |-> "testNoRead", Volttron_Point_Name |-> "testNoRead",
        Units |-> "degC", Type |-> "setting",
        Writable |-> "True", Readable |-> "False"] >>

\* test_configure_ecobee_invalid_registers: an entry without "Point Name".
no_point_name ==
    << [Volttron_Point_Name |-> "testHold", Units |-> "%", Type |-> "hold",
        Writable |-> "True", Readable |-> "True"],
       VALID_ECOBEE_REGISTRY[2] >>

\* test_configure_ecobee_invalid_registers: an entry of type "test".
unsupported_type ==
    << [Volttron_Point_Name |-> "testHold", Units |-> "%", Type |-> "test",
        Writable |-> "True", Readable |-> "True"],
       VALID_ECOBEE_REGISTRY[2] >>

\* An entry of type "test" that does have a point name.
unsupported_type_named ==
    << [Point_Name |-> "hold1", Volttron_Point_Name |-> "testHold",
        Units |-> "%", Type |-> "test",
        Writable |-> "True", Readable |-> "True"],
       VALID_ECOBEE_REGISTRY[2] >>

\* test_ecobee_get_point_unreadable
mixed_readable_registry ==
    << [Point_Name |-> "hold1", Volttron_Point_Name |-> "testHold",
        Units |-> "%", Type |-> "hold",
        Writable |-> "True", Readable |-> "True"],
       [Point_Name |-> "setting1", Volttron_Point_Name |-> "testSetting",
        Units |-> "degC", Type |-> "setting",
        Writable |-> "False", Readable |-> "True"],
       [Point_Name |-> "hold2", Volttron_Point_Name |-> "testHoldNoRead",
        Units |-> "%", Type |-> "hold",
        Writable |-> "True", Readable |-> "False"],
       [Point_Name |-> "setting2", Volttron_Point_Name |-> "testSettingNoRead",
        Units |-> "degC", Type |-> "setting",
        Writable |-> "False", Readable |-> "False"] >>

Registries ==
    << VALID_ECOBEE_REGISTRY, no_point_name, unsupported_type,
       unsupported_type_named, mixed_readable_registry >>

\* test_ecobee_empty_values: a response with no equipment running and no event.
empty_response ==
    [thermostatList |-> <<
        [identifier |-> 8675309,
         settings |-> [setting1 |-> 0, setting2 |-> 1],
         runtime |-> [hold1 |-> 0, hold2 |-> 1],
         events |-> <<>>,
         equipmentStatus |-> <<>>] >>]

\* The empty dict.
EmptyDict == [key \in {} |-> None]

\* test_get_point_malformed_data: the values assigned to thermostat_data.
MalformedData ==
    << EmptyDict,
       [thermostatsList |-> << [identifier |-> 8675309] >>],
       [thermostatsList |-> <<
            [identifier |-> 8675309,
             settings |-> EmptyDict,
             runtime |-> EmptyDict,
             events |-> <<"">>] >>] >>

\* The values the tests assign to thermostat_data.
AssignedData == <<None, empty_response>> \o MalformedData

\* The values the tests expect of get_point and _scrape_all after configure
\* with VALID_ECOBEE_REGISTRY.
ExpectedValues ==
    [testSetting |-> 0,
     testHold |-> 0,
     Programs |-> << [test1 |-> "test1", type |-> "program"] >>,
     Vacations |-> << [test2 |-> "test2", type |-> "vacation"] >>,
     Status |-> <<testEquip1, testEquip3>>]

\* The three stages of the authorization handshake.
Stages == {"REQUEST_TOKENS", "REFRESH_TOKENS", "AUTHORIZED"}

\* VALID_ECOBEE_CONFIG and variants of it: DEVICE_ID as an int, or as the
\* string of test_configure_ecobee_invalid_id.
IntId(n) == [isint |-> TRUE, int |-> n, str |-> ""]
StrId(s) == [isint |-> FALSE, int |-> 0, str |-> s]
VALID_ECOBEE_CONFIG == [API_KEY |-> API_KEY, DEVICE_ID |-> IntId(DEVICE_ID)]
Configs ==
    { VALID_ECOBEE_CONFIG,
      [API_KEY |-> API_KEY, DEVICE_ID |-> IntId(OTHER_DEVICE_ID)],
      [API_KEY |-> API_KEY, DEVICE_ID |-> StrId("woops")] }

---------------------------------------------------------------------------
(* Outcomes of a call *)

NoError == "none"
ErrRequestTokens == "HTTPError: Not authorized to request tokens"
ErrRefreshTokens == "HTTPError: Not authorized to refresh tokens"
ErrRemote == "HTTPError: Failed to get remote Ecobee data"
ErrDeviceId ==
    "ValueError: Ecobee driver requires Ecobee device identifier as int"
HTTPErrors == {ErrRequestTokens, ErrRefreshTokens, ErrRemote}

\* A call's outcome: the object afterwards, the exception raised (or none), the
\* value returned, and how many remote requests and reauthorizations it made.
Ok(s) == [s |-> s, err |-> NoError, ret |-> None, remote |-> 0, reauth |-> 0]
Raise(s, e) == [s |-> s, err |-> e, ret |-> None, remote |-> 0, reauth |-> 0]
Return(r, v) == [r EXCEPT !.ret = v]
Failed(r) == r.err # NoError

---------------------------------------------------------------------------
(* MockEcobee *)

get_auth_config_from_store(s) ==
    IF ~s.auth_config_stored
    THEN None
    ELSE [AUTH_CODE |-> s.authorization_code,
          ACCESS_TOKEN |-> s.access_token,
          REFRESH_TOKEN |-> s.refresh_token]

update_auth_config(s) == [s EXCEPT !.auth_config_stored = TRUE]

\* Variant: the authorization code is not recorded.
authorize_application_no_code(s) ==
    Ok([s EXCEPT !.authorization_stage = "REQUEST_TOKENS"])

authorize_application(s) ==
    Ok([s EXCEPT !.authorization_code = TRUE,
                 !.authorization_stage = "REQUEST_TOKENS"])

\* Variant: only the access token is set.
request_tokens_no_refresh_token(s) ==
    IF s.authorization_code
    THEN Ok([s EXCEPT !.access_token = TRUE,
                      !.authorization_stage = "AUTHORIZED"])
    ELSE Raise(s, ErrRequestTokens)

\* Variant: the access token is set before the authorization code is checked.
request_tokens_sets_first(s) ==
    IF s.authorization_code
    THEN Ok([s EXCEPT !.refresh_token = TRUE,
                      !.access_token = TRUE,
                      !.authorization_stage = "AUTHORIZED"])
    ELSE Raise([s EXCEPT !.access_token = TRUE], ErrRequestTokens)

\* Variant: a refused request puts the stage back to a value outside the
\* handshake.
request_tokens_resets_stage(s) ==
    IF s.authorization_code
    THEN Ok([s EXCEPT !.refresh_token = TRUE,
                      !.access_token = TRUE,
                      !.authorization_stage = "AUTHORIZED"])
    ELSE Raise([s EXCEPT !.authorization_stage = "UNAUTHORIZED"],
               ErrRequestTokens)

request_tokens(s) ==
    IF s.authorization_code
    THEN Ok([s EXCEPT !.refresh_token = TRUE,
                      !.access_token = TRUE,
                      !.authorization_stage = "AUTHORIZED"])
    ELSE Raise(s, ErrRequestTokens)

\* Variant: a refresh also needs the authorization code.
refresh_tokens_needs_code(s) ==
    IF s.refresh_token /\ s.authorization_code
    THEN Ok([s EXCEPT !.refresh_token = TRUE,
                      !.access_token = TRUE,
                      !.authorization_stage = "AUTHORIZED"])
    ELSE Raise(s, ErrRefreshTokens)

\* Variant: the refresh token is used up by the refresh.
refresh_tokens_used_up(s) ==
    IF s.refresh_token
    THEN Ok([s EXCEPT !.refresh_token = FALSE,
                      !.access_token = TRUE,
                      !.authorization_stage = "AUTHORIZED"])
    ELSE Raise(s, ErrRefreshTokens)

\* Variant: without a refresh token the tokens are requested with the
\* authorization code instead.
refresh_tokens_falls_back(s) ==
    IF s.refresh_token
    THEN Ok([s EXCEPT !.refresh_token = TRUE,
                      !.access_token = TRUE,
                      !.authorization_stage = "AUTHORIZED"])
    ELSE request_tokens(s)

refresh_tokens(s) ==
    IF s.refresh_token
    THEN Ok([s EXCEPT !.refresh_token = TRUE,
                      !.access_token = TRUE,
                      !.authorization_stage = "AUTHORIZED"])
    ELSE Raise(s, ErrRefreshTokens)

---------------------------------------------------------------------------
(* ecobee.Interface: the authorization handshake *)

\* f applied to the outcome r of an earlier step.
Bind(r, f(_)) == f(r)

\* Sequential composition of calls: the first exception ends the sequence, and
\* the counts of remote requests and reauthorizations add up.
Then(r, f(_)) ==
    IF Failed(r) THEN r
    ELSE Bind(f(r.s), LAMBDA q : [q EXCEPT !.remote = r.remote + q.remote,
                                            !.reauth = r.reauth + q.reauth])

RequestStep(s) ==
    IF s.authorization_stage = "REQUEST_TOKENS" THEN request_tokens(s) ELSE Ok(s)

RefreshStep(s) ==
    IF s.authorization_stage = "REFRESH_TOKENS" THEN refresh_tokens(s) ELSE Ok(s)

SaveStep(s) == Ok(update_auth_config(s))

\* Runs the step the current stage asks for, then saves the credentials.  An
\* exception of the step propagates from where it was raised and nothing is
\* saved.
update_authorization(s) ==
    Then(Then(RequestStep(s), RefreshStep), SaveStep)

\* MockEcobee.get_data_remote
Reauthorized(s) == [update_authorization(s) EXCEPT !.reauth = 1]

\* Variant: the response is returned whatever the authorization.
RemoteResponse_unchecked(s) == Return(Ok(s), REMOTE_RESPONSE)

\* Variant: the response is dropped (the function returns nothing).
RemoteResponse_dropped(s) ==
    IF s.authorization_stage = "AUTHORIZED" /\ s.access_token
    THEN Ok(s)
    ELSE Raise(s, ErrRemote)

\* Variant: another thermostat's data is returned.
RemoteResponse_other(s) ==
    IF s.authorization_stage = "AUTHORIZED" /\ s.access_token
    THEN Return(Ok(s), [thermostatList |-> <<>>])
    ELSE Raise(s, ErrRemote)

\* Variant: the access token is not checked.
RemoteResponse_stage_only(s) ==
    IF s.authorization_stage = "AUTHORIZED"
    THEN Return(Ok(s), REMOTE_RESPONSE)
    ELSE Raise(s, ErrRemote)

RemoteResponse(s) ==
    IF s.authorization_stage = "AUTHORIZED" /\ s.access_token
    THEN Return(Ok(s), REMOTE_RESPONSE)
    ELSE Raise(s, ErrRemote)

\* Variant: no reauthorization before the request.
get_data_remote_no_reauth(s, url) ==
    Bind(RemoteResponse(s), LAMBDA r : [r EXCEPT !.remote = 1])

\* Variant: the interface reauthorizes before every request.
get_data_remote_always_reauth(s, url) ==
    Bind(Then(Reauthorized(s), RemoteResponse),
         LAMBDA r : [r EXCEPT !.remote = 1])

get_data_remote(s, url) ==
    Bind(Then(IF s.authorization_stage # "AUTHORIZED" \/ ~s.access_token
              THEN Reauthorized(s) ELSE Ok(s),
              RemoteResponse),
         LAMBDA r : [r EXCEPT !.remote = 1])

---------------------------------------------------------------------------
(* ecobee.Interface: the response cache *)

Entries(s, url) == {e \in s.cache : e.url = url}

Fresh(s, e, update_frequency) == s.now - e.request_timestamp < update_frequency

\* The cached response for url if an entry exists and is younger than
\* update_frequency, else None.
get_data_cache(s, url, update_frequency) ==
    IF \E e \in Entries(s, url) : Fresh(s, e, update_frequency)
    THEN (CHOOSE e \in Entries(s, url) :
              Fresh(s, e, update_frequency)).request_response
    ELSE None

\* Variant: the response is added to the entries for url.
store_remote_data_added(s, url, response) ==
    [s EXCEPT !.cache = s.cache \cup
                  {[url |-> url,
                    request_timestamp |-> s.now,
                    request_response |-> response]},
              !.stored_max = IF s.now > s.stored_max THEN s.now ELSE s.stored_max]

\* Replaces the entry for url by the response, stamped with the current time.
store_remote_data(s, url, response) ==
    [s EXCEPT !.cache = (s.cache \ Entries(s, url)) \cup
                  {[url |-> url,
                    request_timestamp |-> s.now,
                    request_response |-> response]},
              !.stored_max = IF s.now > s.stored_max THEN s.now ELSE s.stored_max]

\* A remote request takes time: the clock has advanced when the response is
\* stored.
Elapse(s) == [s EXCEPT !.now = s.now + 1]

get_ecobee_data(s, url, update_frequency, refresh) ==
    Bind(IF refresh THEN None ELSE get_data_cache(s, url, update_frequency),
         LAMBDA cached :
            IF cached # None
            THEN Return(Ok(s), cached)
            ELSE Bind(get_data_remote(s, url), LAMBDA r :
                    IF Failed(r) THEN r
                    ELSE [r EXCEPT !.s = store_remote_data(Elapse(r.s), url, r.ret)]))

get_thermostat_data(s, refresh) ==
    Bind(get_ecobee_data(s, THERMOSTAT_URL, UpdateFrequency, refresh),
         LAMBDA r : IF Failed(r) THEN r
                    ELSE [r EXCEPT !.s.thermostat_data = r.ret])

---------------------------------------------------------------------------
(* ecobee.Interface: registers and points *)

\* str.split(sep): the pieces of str between the occurrences of sep.  A string
\* is a sequence of characters; the split of the empty string is [""].
RECURSIVE SplitFrom(_, _, _)
SplitFrom(str, sep, piece) ==
    IF str = <<>>
    THEN <<piece>>
    ELSE IF Head(str) = sep
    THEN <<piece>> \o SplitFrom(Tail(str), sep, <<>>)
    ELSE SplitFrom(Tail(str), sep, Append(piece, Head(str)))

Split(str, sep) == SplitFrom(str, sep, <<>>)

\* regDef.get(key, "").lower() == "true"
IsTrue(regDef, key) ==
    key \in DOMAIN regDef /\ regDef[key] \in {"True", "true", "TRUE"}

\* The register types a registry entry may name.
RegistryTypes == {"setting", "hold"}

\* An entry without a point name or of an unsupported type builds no register.
Supported(regDef) ==
    /\ "Point_Name" \in DOMAIN regDef
    /\ regDef.Point_Name # ""
    /\ "Type" \in DOMAIN regDef
    /\ regDef.Type \in RegistryTypes

\* The register a registry entry describes: it reads the ecobee point
\* "Point Name" of the thermostat and is known as "Volttron Point Name".
NewRegister(ecobee_id, regDef) ==
    [register_type |-> regDef.Type,
     thermostat_identifier |-> ecobee_id,
     ecobee_point |-> regDef.Point_Name,
     point_name |-> regDef.Volttron_Point_Name,
     read_only |-> ~IsTrue(regDef, "Writable"),
     readable |-> IsTrue(regDef, "Readable")]

\* Each thermostat has one Status, one Vacations and one Programs register.
Builtin(ecobee_id, type, name) ==
    [register_type |-> type,
     thermostat_identifier |-> ecobee_id,
     ecobee_point |-> name,
     point_name |-> name,
     read_only |-> TRUE,
     readable |-> TRUE]

BuiltinRegisters(ecobee_id) ==
    << Builtin(ecobee_id, "status", "Status"),
       Builtin(ecobee_id, "vacation", "Vacations"),
       Builtin(ecobee_id, "program", "Programs") >>

RegistryRegisters(ecobee_id, supported) ==
    [i \in 1..Len(supported) |-> NewRegister(ecobee_id, supported[i])]

\* Variant: the registers of an earlier configure are kept.
parse_config_appending(s, registry_config) ==
    [s EXCEPT !.registers =
        s.registers \o
        RegistryRegisters(s.ecobee_id, SelectSeq(registry_config, Supported)) \o
        BuiltinRegisters(s.ecobee_id)]

\* The registers of the interface are those of the registry's supported
\* entries, in order, followed by the built-in ones.
parse_config(s, registry_config) ==
    [s EXCEPT !.registers =
        RegistryRegisters(s.ecobee_id, SelectSeq(registry_config, Supported)) \o
        BuiltinRegisters(s.ecobee_id)]

PointNames(registers) == {registers[i].point_name : i \in 1..Len(registers)}

get_register_by_name(s, point_name) ==
    s.registers[CHOOSE i \in 1..Len(s.registers) :
                    s.registers[i].point_name = point_name]

ErrWriteOnly(point_name) ==
    "RuntimeError: Requested read of write-only point " \o point_name
ErrNoData == "ValueError: Ecobee data did not contain the point"

\* The result of reading a register: a value, or the exception raised.
Value(v) == [err |-> NoError, ret |-> v]
Error(e) == [err |-> e, ret |-> None]

\* The thermostats of the data that carry the register's identifier; none if the
\* data is missing, empty or has no "thermostatList".
Thermostats(register, thermostat_data) ==
    IF thermostat_data = None \/ "thermostatList" \notin DOMAIN thermostat_data
    THEN <<>>
    ELSE SelectSeq(thermostat_data.thermostatList,
                   LAMBDA t : t.identifier = register.thermostat_identifier)

EventsOfType(thermostat, type) ==
    IF "events" \notin DOMAIN thermostat
    THEN Error(ErrNoData)
    ELSE Value(SelectSeq(thermostat.events, LAMBDA e : e.type = type))

ValueIn(thermostat, section, ecobee_point) ==
    IF section \notin DOMAIN thermostat
    THEN Error(ErrNoData)
    ELSE IF ecobee_point \notin DOMAIN thermostat[section]
    THEN Error(ErrNoData)
    ELSE Value(thermostat[section][ecobee_point])

\* Variant: the equipment status is split even when it is empty.
EquipmentStatus_split_always(thermostat) ==
    IF "equipmentStatus" \notin DOMAIN thermostat
    THEN Error(ErrNoData)
    ELSE Value(Split(thermostat.equipmentStatus, ","))

\* The running equipment, one name per piece of the comma-separated status;
\* nothing is running when the status is empty.
EquipmentStatus(thermostat) ==
    IF "equipmentStatus" \notin DOMAIN thermostat
    THEN Error(ErrNoData)
    ELSE IF thermostat.equipmentStatus = <<>>
    THEN Value(<<>>)
    ELSE Value(Split(thermostat.equipmentStatus, ","))

\* The register's value in one thermostat's data.
ReadThermostat(register, thermostat) ==
    CASE register.register_type = "setting" ->
            ValueIn(thermostat, "settings", register.ecobee_point)
      [] register.register_type = "hold" ->
            ValueIn(thermostat, "runtime", register.ecobee_point)
      [] register.register_type = "status" -> EquipmentStatus(thermostat)
      [] register.register_type = "vacation" ->
            EventsOfType(thermostat, "vacation")
      [] register.register_type = "program" ->
            EventsOfType(thermostat, "program")

ReadFirst(register, thermostats) ==
    IF thermostats = <<>>
    THEN Error(ErrNoData)
    ELSE ReadThermostat(register, thermostats[1])

\* Variant: a register is read whether or not it is readable.
get_state_unguarded(register, thermostat_data) ==
    ReadFirst(register, Thermostats(register, thermostat_data))

\* register.get_state(thermostat_data): RuntimeError for a register that is not
\* readable, ValueError when the data does not hold the point.
get_state(register, thermostat_data) ==
    IF ~register.readable
    THEN Error(ErrWriteOnly(register.point_name))
    ELSE ReadFirst(register, Thermostats(register, thermostat_data))

\* The second read of get_point, of the refreshed data.
ReadRefreshed(register, r) ==
    IF Failed(r)
    THEN r
    ELSE Bind(get_state(register, r.s.thermostat_data), LAMBDA v :
            [r EXCEPT !.err = v.err, !.ret = v.ret])

\* The point's value in the thermostat data held; a ValueError of that read
\* makes the interface refresh the data from the remote and read again.
get_point(s, point_name) ==
    Bind(get_register_by_name(s, point_name), LAMBDA register :
    Bind(get_state(register, s.thermostat_data), LAMBDA v :
        IF v.err = ErrNoData
        THEN ReadRefreshed(register, get_thermostat_data(s, TRUE))
        ELSE IF v.err # NoError
        THEN Raise(s, v.err)
        ELSE Return(Ok(s), v.ret)))

\* The registers _scrape_all reports: those whose read does not raise
\* RuntimeError.
Scraped(registers, thermostat_data) ==
    SelectSeq(registers, LAMBDA register :
        get_state(register, thermostat_data).err #
            ErrWriteOnly(register.point_name))

\* Variant: every register is reported, readable or not.
ScrapeResult_all_registers(s) ==
    [point_name \in PointNames(s.registers) |->
        get_state_unguarded(get_register_by_name(s, point_name),
                            s.thermostat_data).ret]

\* The mapping from each scraped register's point name to its value.
ScrapeResult(s) ==
    [point_name \in PointNames(Scraped(s.registers, s.thermostat_data)) |->
        get_state(get_register_by_name(s, point_name), s.thermostat_data).ret]

ScrapeRefreshed(r) == IF Failed(r) THEN r ELSE Return(r, ScrapeResult(r.s))

\* _scrape_all: without thermostat data the data is refreshed first.
scrape_all(s) ==
    IF s.thermostat_data = None \/ DOMAIN s.thermostat_data = {}
    THEN ScrapeRefreshed(get_thermostat_data(s, TRUE))
    ELSE Return(Ok(s), ScrapeResult(s))

---------------------------------------------------------------------------
(* ecobee.Interface.configure *)

GetData(s) == get_thermostat_data(s, FALSE)

\* With both tokens stored the data is fetched: the interface is AUTHORIZED if
\* that works and must refresh its tokens if it does not.
TryStoredTokens(s) ==
    Bind(GetData(s), LAMBDA r :
        IF Failed(r)
        THEN [r EXCEPT !.err = NoError,
                       !.s.authorization_stage = "REFRESH_TOKENS"]
        ELSE [r EXCEPT !.s.authorization_stage = "AUTHORIZED"])

\* The stage the stored credentials allow: without an authorization code the
\* application is authorized anew; with one the tokens can be requested.
configure_stored(s, stored) ==
    IF stored = None
    THEN authorize_application(s)
    ELSE IF ~stored.AUTH_CODE
    THEN authorize_application(s)
    ELSE IF stored.ACCESS_TOKEN /\ stored.REFRESH_TOKEN
    THEN TryStoredTokens([s EXCEPT !.authorization_code = stored.AUTH_CODE,
                                   !.authorization_stage = "REQUEST_TOKENS",
                                   !.access_token = stored.ACCESS_TOKEN,
                                   !.refresh_token = stored.REFRESH_TOKEN])
    ELSE Ok([s EXCEPT !.authorization_code = stored.AUTH_CODE,
                      !.authorization_stage = "REQUEST_TOKENS"])

Reauthorize(s) ==
    IF s.authorization_stage # "AUTHORIZED" THEN Reauthorized(s) ELSE Ok(s)

LoadStored(s) == configure_stored(s, get_auth_config_from_store(s))

\* The identifier of the thermostat and the path of its stored credentials.
SetDevice(s, device_id) ==
    [s EXCEPT !.ecobee_id = device_id,
              !.auth_config_path = Format(AUTH_CONFIG_PATH, device_id)]

\* Variant: the device identifier is not checked.
configure_any_id(s, config_dict, registry_config) ==
    Return(Then(Then(LoadStored(parse_config(
                        SetDevice(s, config_dict.DEVICE_ID.int),
                        registry_config)),
                     Reauthorize),
                GetData),
           None)

configure(s, config_dict, registry_config) ==
    IF ~config_dict.DEVICE_ID.isint
    THEN Raise(s, ErrDeviceId)
    ELSE Return(Then(Then(LoadStored(parse_config(
                            SetDevice(s, config_dict.DEVICE_ID.int),
                            registry_config)),
                          Reauthorize),
                     GetData),
                None)

---------------------------------------------------------------------------
(* The state machine *)

NoCall == [op |-> "none", pre |-> None, err |-> NoError, remote |-> 0,
           reauth |-> 0, arg |-> None, ret |-> None, registry |-> <<>>]

\* MockEcobee.__init__ on top of Interface.__init__
NewMockEcobee(stage) ==
    [auth_config_stored |-> FALSE,
     authorization_code |-> FALSE,
     access_token |-> FALSE,
     refresh_token |-> FALSE,
     authorization_stage |-> stage,
     auth_config_path |-> NoPath,
     ecobee_id |-> None,
     registers |-> <<>>,
     thermostat_data |-> None,
     ecobee_data |-> None,
     cache |-> {},
     now |-> 0,
     stored_max |-> -1]

Init ==
    /\ \E stage \in Stages : self = NewMockEcobee(stage)
    /\ last = NoCall

\* The record of a call of the interface; of an assignment made by a test only
\* the name is kept.
Called(op, arg, r) ==
    [op |-> op, pre |-> self, err |-> r.err, remote |-> r.remote,
     reauth |-> r.reauth, arg |-> arg, ret |-> r.ret, registry |-> <<>>]
Assigned(op) == [NoCall EXCEPT !.op = op]

InTime(s) == s.now <= MaxTime

\* The record of a call of configure.
Configured(config_dict, registry_config, r) ==
    [Called("configure", config_dict, r) EXCEPT !.registry = registry_config]

\* configure as the authorization and data tests call it.
Configure ==
    \E c \in Configs :
        LET r == configure(self, c, VALID_ECOBEE_REGISTRY)
        IN  /\ InTime(r.s)
            /\ self' = r.s
            /\ last' = Configured(c, VALID_ECOBEE_REGISTRY, r)

UpdateAuthorization ==
    LET r == update_authorization(self)
    IN  /\ self' = r.s
        /\ last' = Called("update_authorization", None, r)

AuthorizeApplication ==
    LET r == authorize_application(self)
    IN  /\ self' = r.s
        /\ last' = Called("authorize_application", None, r)

RequestTokens ==
    LET r == request_tokens(self)
    IN  /\ self' = r.s
        /\ last' = Called("request_tokens", None, r)

RefreshTokens ==
    LET r == refresh_tokens(self)
    IN  /\ self' = r.s
        /\ last' = Called("refresh_tokens", None, r)

GetDataRemote ==
    LET r == get_data_remote(self, THERMOSTAT_URL)
    IN  /\ self' = r.s
        /\ last' = Called("get_data_remote", None, r)

GetThermostatData ==
    \E refresh \in BOOLEAN :
        LET r == get_thermostat_data(self, refresh)
        IN  /\ InTime(r.s)
            /\ self' = r.s
            /\ last' = Called("get_thermostat_data", [refresh |-> refresh], r)

\* The tests assign the credentials and the stage directly (a token lapses, an
\* authorization is revoked).
SetCredentials ==
    \E c \in BOOLEAN, r \in BOOLEAN, a \in BOOLEAN :
        /\ self' = [self EXCEPT !.authorization_code = c,
                                !.refresh_token = r,
                                !.access_token = a]
        /\ last' = Assigned("set_credentials")

SetStage ==
    \E st \in Stages :
        /\ self' = [self EXCEPT !.authorization_stage = st]
        /\ last' = Assigned("set_stage")

\* mock_ecobee.ecobee_data = None; mock_ecobee.thermostat_data = None
ResetData ==
    /\ self' = [self EXCEPT !.ecobee_data = None, !.thermostat_data = None]
    /\ last' = Assigned("reset_data")

cleanup_mock_cache(s) == [s EXCEPT !.cache = {}]

CleanupMockCache ==
    /\ self' = cleanup_mock_cache(self)
    /\ last' = Assigned("cleanup_mock_cache")

\* Time passes between calls.
Tick ==
    /\ InTime(Elapse(self))
    /\ self' = Elapse(self)
    /\ last' = Assigned("tick")

Next ==
    \/ Configure
    \/ UpdateAuthorization
    \/ AuthorizeApplication
    \/ RequestTokens
    \/ RefreshTokens
    \/ GetDataRemote
    \/ GetThermostatData
    \/ SetCredentials
    \/ SetStage
    \/ ResetData
    \/ CleanupMockCache
    \/ Tick

Spec == Init /\ [][Next]_vars

---------------------------------------------------------------------------
(* The state machine of the register and point tests *)

\* The configurations of the register and point tests: the thermostat the
\* remote reports, or an identifier that is no int.
PointConfigs ==
    { VALID_ECOBEE_CONFIG,
      [API_KEY |-> API_KEY, DEVICE_ID |-> StrId("woops")] }

ConfigureRegisters ==
    \E c \in PointConfigs, i \in 1..Len(Registries) :
        LET r == configure(self, c, Registries[i])
        IN  /\ InTime(r.s)
            /\ self' = r.s
            /\ last' = Configured(c, Registries[i], r)

GetPoint ==
    \E point_name \in PointNames(self.registers) :
        LET r == get_point(self, point_name)
        IN  /\ InTime(r.s)
            /\ self' = r.s
            /\ last' = Called("get_point", point_name, r)

\* The tests scrape with thermostat data held, or with none.
ScrapeAll ==
    /\ \A i \in 1..Len(MalformedData) :
            self.thermostat_data = MalformedData[i] => MalformedData[i] = EmptyDict
    /\ LET r == scrape_all(self)
       IN  /\ InTime(r.s)
           /\ self' = r.s
           /\ last' = Called("_scrape_all", None, r)

\* mock_ecobee.thermostat_data = ...
SetThermostatData ==
    \E i \in 1..Len(AssignedData) :
        /\ self' = [self EXCEPT !.thermostat_data = AssignedData[i]]
        /\ last' = Assigned("set_thermostat_data")

\* test_get_thermostat_data_no_auth: the authorization is withdrawn.
RevokeAuthorization ==
    /\ self' = [self EXCEPT !.authorization_code = FALSE,
                            !.refresh_token = FALSE,
                            !.access_token = FALSE]
    /\ last' = Assigned("set_credentials")

NextPoints ==
    \/ ConfigureRegisters
    \/ GetPoint
    \/ ScrapeAll
    \/ GetThermostatData
    \/ SetThermostatData
    \/ RevokeAuthorization
    \/ CleanupMockCache
    \/ Tick

SpecPoints == Init /\ [][NextPoints]_vars

---------------------------------------------------------------------------
(* examples/TestAgent/tester/agent.py: the Tester agent *)

\* In this state machine self is the Tester instance, together with what the
\* platform holds for it: the "config" entry of its configuration store, how
\* far its startup has come, and what it has sent and written.

\* The identities and paths an agent may be given.
Vips == {"platform.historian", "other.historian"}
Paths == {"historian_output", "other_output"}

ConfigKeys == {"historian_vip", "output"}

\* A dict with the keys given, of the two values.
Dict(keys, historian_vip, output) ==
    [key \in keys |-> IF key = "historian_vip" THEN historian_vip ELSE output]

\* The contents a configuration may have: any of the two keys may be missing.
Contents ==
    {Dict(keys, v, p) : keys \in SUBSET ConfigKeys, v \in Vips, p \in Paths}

\* dict.update
Update(config, contents) ==
    [key \in DOMAIN config \cup DOMAIN contents |->
        IF key \in DOMAIN contents THEN contents[key] ELSE config[key]]

ErrRpc == "Unreachable: the peer did not answer"

\* Tester.__init__; constructed keeps the arguments it was given (history).
NewTester(historian_vip, output_path, stored) ==
    [constructed |-> [historian_vip |-> historian_vip,
                      output_path |-> output_path],
     historian_vip |-> historian_vip,
     output_path |-> output_path,
     default_config |-> Dict(ConfigKeys, historian_vip, output_path),
     config_store |-> stored,
     phase |-> "connected",
     configured |-> <<>>,
     rpc_calls |-> <<>>,
     written |-> {}]

\* Variant: the contents are written into default_config itself, not a copy.
Tester_configure_no_copy(s, config_name, action, contents) ==
    Bind(Update(s.default_config, contents), LAMBDA config :
        Ok([s EXCEPT !.default_config = config,
                     !.historian_vip = config["historian_vip"],
                     !.output_path = config["output"],
                     !.configured = Append(s.configured, contents)]))

\* Variant: the values read from the configuration are not assigned.
Tester_configure_unassigned(s, config_name, action, contents) ==
    Ok([s EXCEPT !.configured = Append(s.configured, contents)])

\* Tester.configure; configured lists the contents it has been called with.
Tester_configure(s, config_name, action, contents) ==
    Bind(Update(s.default_config, contents), LAMBDA config :
        Ok([s EXCEPT !.historian_vip = config["historian_vip"],
                     !.output_path = config["output"],
                     !.configured = Append(s.configured, contents)]))

Rpc(s, method) ==
    [s EXCEPT !.rpc_calls =
        Append(s.rpc_calls, [peer |-> s.historian_vip, method |-> method])]

Write(s) == [s EXCEPT !.written = s.written \cup {s.output_path}]

\* Tester.onstart: two calls of the historian, then the output file; a call
\* that is not answered raises and ends it.
Tester_onstart(s, answered) ==
    IF answered = 0
    THEN Raise(Rpc(s, "get_topics_by_pattern"), ErrRpc)
    ELSE IF answered = 1
    THEN Raise(Rpc(Rpc(s, "get_topics_by_pattern"), "query"), ErrRpc)
    ELSE Ok(Write(Rpc(Rpc(s, "get_topics_by_pattern"), "query")))

InitTester ==
    /\ \E v \in Vips, p \in Paths, stored \in Contents \cup {None} :
        self = NewTester(v, p, stored)
    /\ last = NoCall

\* The configuration the store holds for "config": the stored one, else the
\* default the constructor set.
StoreConfig(s) ==
    IF s.config_store = None THEN s.default_config ELSE s.config_store

\* At startup the platform calls configure with the configuration that exists.
StartupConfigure ==
    /\ self.phase = "connected"
    /\ LET r == Tester_configure(self, "config", "NEW", StoreConfig(self))
       IN  /\ self' = [r.s EXCEPT !.phase = "configured"]
           /\ last' = Called("Tester.configure", StoreConfig(self), r)

\* onstart is sent after the configuration callbacks of startup.
OnStart ==
    /\ self.phase = "configured"
    /\ \E answered \in 0..2 :
        LET r == Tester_onstart(self, answered)
        IN  /\ self' = [r.s EXCEPT !.phase = "started"]
            /\ last' = Called("Tester.onstart", answered, r)

\* The configuration in the store changes.
UpdateConfigure ==
    /\ self.phase \in {"configured", "started"}
    /\ Len(self.configured) < MaxConfigures
    /\ \E contents \in Contents :
        LET r == Tester_configure(
                    [self EXCEPT !.config_store = contents],
                    "config", "UPDATE", contents)
        IN  /\ self' = r.s
            /\ last' = Called("Tester.configure", contents, r)

NextTester ==
    \/ StartupConfigure
    \/ OnStart
    \/ UpdateConfigure

SpecTester == InitTester /\ [][NextTester]_vars

---------------------------------------------------------------------------
(* examples/TestAgent/test/test.py: the TestAgent *)

\* In this state machine self is the TestAgent instance with the output file
\* (the pieces appended to it) and what it has printed.

\* How a call of the historian may end: with a result, with an exception of
\* class Exception (the peer is unreachable, the method fails remotely), or,
\* for a get with a timeout, with gevent's Timeout, which is a BaseException.
RpcReturned == "returned"
RpcError == "Exception: RPC failed"
RpcTimeout == "BaseException: Timeout"

\* get() waits without a limit; get(timeout=10) may time out.
GetOutcomes == {RpcReturned, RpcError}
GetTimeoutOutcomes == {RpcReturned, RpcError, RpcTimeout}

\* How the write to the file may end: all four pieces written, the file not
\* opened, or a write refused after some pieces.
ErrWrite == "Exception: write failed"
WriteOutcomes == 0..4

\* TestAgent.__init__
NewTestAgent(output_path, historian_vip) ==
    [output_path |-> output_path,
     historian_vip |-> historian_vip,
     file |-> <<>>,
     printed |-> <<>>,
     runs |-> 0]

\* The pieces lookup_data writes, in order.
Pieces == <<"TOPICS", "topics", "DATA", "data">>

\* with open(self.output_path, "a") as f: the first `written` pieces are
\* appended; fewer than four means open or a write raised.  The empty path
\* of the constructor's default cannot be opened.
AppendPieces(s, written) ==
    IF s.output_path = ""
    THEN Raise(s, ErrWrite)
    ELSE IF written = Len(Pieces)
    THEN Ok([s EXCEPT !.file = s.file \o Pieces])
    ELSE Raise([s EXCEPT !.file = s.file \o SubSeq(Pieces, 1, written)],
               ErrWrite)

\* The body of the try: the two calls, then the file.
LookupBody(s, topics, data, written) ==
    IF topics # RpcReturned
    THEN Raise(s, topics)
    ELSE IF data # RpcReturned
    THEN Raise(s, data)
    ELSE AppendPieces(s, written)

\* except Exception as e: an exception of class Exception is printed and the
\* method returns; any other propagates to the caller.
CatchException(r) ==
    IF r.err \in {RpcError, ErrWrite}
    THEN Ok([r.s EXCEPT !.printed = Append(r.s.printed, r.err)])
    ELSE r

\* TestAgent.lookup_data, as the scheduler calls it every ten seconds.
lookup_data(s, topics, data, written) ==
    CatchException(LookupBody(s, topics, data, written))

\* testagent(config_path): the agent as the factory builds it, with the
\* configured values or the constructor's defaults.
InitTestAgent ==
    /\ \E output_path \in Paths \cup {""}, historian_vip \in Vips \cup {""} :
           self = NewTestAgent(output_path, historian_vip)
    /\ last = NoCall

\* One periodic run of lookup_data. The state an escaping exception leaves
\* behind is the instance as the body left it; the run is counted either way.
LookupData ==
    /\ self.runs < MaxRuns
    /\ \E topics \in GetOutcomes, data \in GetTimeoutOutcomes,
          written \in WriteOutcomes :
           LET r == lookup_data(self, topics, data, written)
           IN /\ self' = [r.s EXCEPT !.runs = self.runs + 1]
              /\ last' = Called("lookup_data",
                                [topics |-> topics, data |-> data,
                                 written |-> written], r)

NextTestAgent ==
    LookupData

SpecTestAgent == InitTestAgent /\ [][NextTestAgent]_vars

---------------------------------------------------------------------------
(* Properties *)

Called_(op) == last.op = op

\* The credentials are as they were before the last call.
CredentialsUnchanged ==
    /\ self.authorization_code = last.pre.authorization_code
    /\ self.refresh_token = last.pre.refresh_token
    /\ self.access_token = last.pre.access_token

\* The cache entries for the thermostat URL, before and after the last call.
EntriesBefore == Entries(last.pre, THERMOSTAT_URL)
EntriesAfter == Entries(self, THERMOSTAT_URL)

\* The last call stored a new entry for the thermostat URL, stamped later than
\* every entry stored before, and it is the only entry for the URL.
StoredNewEntry ==
    /\ Cardinality(EntriesAfter) = 1
    /\ \A e \in EntriesAfter :
        /\ e.request_timestamp > last.pre.stored_max
        /\ e.request_timestamp = self.now
        /\ e.request_response = REMOTE_RESPONSE

\* C1: update_authorization at stage REQUEST_TOKENS with a valid authorization
\* code and no tokens completes without error; afterwards both tokens are set,
\* the authorization code is still set and the stage is AUTHORIZED.
C1_Pre ==
    /\ Called_("update_authorization")
    /\ last.pre.authorization_stage = "REQUEST_TOKENS"
    /\ last.pre.authorization_code
    /\ ~last.pre.refresh_token
    /\ ~last.pre.access_token

C1_RequestTokensAuthorizes ==
    C1_Pre =>
        /\ last.err = NoError
        /\ self.refresh_token
        /\ self.access_token
        /\ self.authorization_code
        /\ self.authorization_stage = "AUTHORIZED"

C1_Witness == C1_Pre /\ self.access_token /\ self.authorization_stage = "AUTHORIZED"

\* C2: update_authorization at stage REQUEST_TOKENS without a valid
\* authorization code raises HTTPError 'Not authorized to request tokens' and
\* leaves the authorization code and both tokens as they were; a token request
\* (through update_authorization or request_tokens itself) fails only if the
\* authorization code is bad.
C2_Pre ==
    /\ Called_("update_authorization")
    /\ last.pre.authorization_stage = "REQUEST_TOKENS"
    /\ ~last.pre.authorization_code

C2_BadAuthCodeRefused ==
    /\ C2_Pre => (last.err = ErrRequestTokens /\ CredentialsUnchanged)
    /\ (Called_("update_authorization") /\
        last.pre.authorization_stage = "REQUEST_TOKENS" /\
        last.err # NoError) => ~last.pre.authorization_code
    /\ (Called_("request_tokens") /\ last.err # NoError) =>
            (last.err = ErrRequestTokens /\ ~last.pre.authorization_code)

C2_Witness ==
    /\ C2_Pre
    /\ ~last.pre.refresh_token /\ ~last.pre.access_token
    /\ last.err = ErrRequestTokens
    /\ ~self.authorization_code /\ ~self.refresh_token /\ ~self.access_token

\* C3: update_authorization at stage REFRESH_TOKENS with a valid refresh token
\* succeeds and sets the access token whether or not the authorization code is
\* valid, and leaves the authorization code as it was.
C3_Pre ==
    /\ Called_("update_authorization")
    /\ last.pre.authorization_stage = "REFRESH_TOKENS"
    /\ last.pre.refresh_token

C3_RefreshNeedsOnlyRefreshToken ==
    C3_Pre =>
        /\ last.err = NoError
        /\ self.access_token
        /\ self.refresh_token
        /\ self.authorization_code = last.pre.authorization_code

C3_Witness ==
    /\ C3_Pre
    /\ ~last.pre.authorization_code /\ ~last.pre.access_token
    /\ self.access_token /\ ~self.authorization_code

\* C4: update_authorization at stage REFRESH_TOKENS without a valid refresh
\* token raises HTTPError 'Not authorized to refresh tokens' even if the
\* authorization code is valid; the credentials stay as they were and the
\* tokens are not requested with the authorization code instead.
C4_Pre ==
    /\ Called_("update_authorization")
    /\ last.pre.authorization_stage = "REFRESH_TOKENS"
    /\ ~last.pre.refresh_token

C4_BadRefreshTokenRefused ==
    C4_Pre =>
        /\ last.err = ErrRefreshTokens
        /\ CredentialsUnchanged
        /\ self.authorization_stage = "REFRESH_TOKENS"

C4_Witness ==
    /\ C4_Pre
    /\ last.pre.authorization_code /\ ~last.pre.access_token
    /\ last.err = ErrRefreshTokens
    /\ self.authorization_code /\ ~self.refresh_token /\ ~self.access_token

\* C5: authorization_stage is always one of REQUEST_TOKENS, REFRESH_TOKENS and
\* AUTHORIZED; a call of the interface changes the stage only from
\* REQUEST_TOKENS to AUTHORIZED or from REFRESH_TOKENS to AUTHORIZED, or, in
\* authorize_application, to REQUEST_TOKENS; a request_tokens or refresh_tokens
\* that fails leaves the stage as it was.
InterfaceCalls ==
    {"update_authorization", "request_tokens", "refresh_tokens",
     "authorize_application", "get_data_remote", "get_thermostat_data",
     "configure", "get_point", "_scrape_all"}

C5_ThreeStages ==
    /\ self.authorization_stage \in Stages
    /\ (last.op \in InterfaceCalls /\
        self.authorization_stage # last.pre.authorization_stage) =>
            \/ /\ last.pre.authorization_stage \in {"REQUEST_TOKENS", "REFRESH_TOKENS"}
               /\ self.authorization_stage = "AUTHORIZED"
            \/ /\ Called_("authorize_application")
               /\ self.authorization_stage = "REQUEST_TOKENS"
    /\ (last.op \in InterfaceCalls /\ last.err # NoError) =>
            self.authorization_stage = last.pre.authorization_stage

C5_Witness ==
    /\ Called_("refresh_tokens")
    /\ last.pre.authorization_stage = "REFRESH_TOKENS"
    /\ last.err = NoError
    /\ self.authorization_stage = "AUTHORIZED"
    /\ self.auth_config_stored

\* C6: configure with a valid configuration on a fresh interface (nothing in
\* the store, no credentials) runs the whole handshake: it returns with the
\* authorization code and both tokens set, the stage AUTHORIZED,
\* auth_config_path the AUTH_CONFIG_PATH formatted with the DEVICE_ID, and
\* thermostat_data equal to the remote response.
C6_Pre ==
    /\ Called_("configure")
    /\ last.arg.DEVICE_ID.isint
    /\ ~last.pre.auth_config_stored
    /\ ~last.pre.authorization_code
    /\ ~last.pre.refresh_token
    /\ ~last.pre.access_token

C6_ConfigureRunsHandshake ==
    C6_Pre =>
        /\ last.err = NoError
        /\ self.authorization_code
        /\ self.refresh_token
        /\ self.access_token
        /\ self.authorization_stage = "AUTHORIZED"
        /\ self.auth_config_path =
                Format(AUTH_CONFIG_PATH, last.arg.DEVICE_ID.int)
        /\ self.thermostat_data = REMOTE_RESPONSE

C6_Witness ==
    /\ C6_Pre
    /\ last.arg = VALID_ECOBEE_CONFIG
    /\ last.pre.cache = {}
    /\ last.pre.thermostat_data = None
    /\ self.auth_config_path = Format(AUTH_CONFIG_PATH, DEVICE_ID)
    /\ self.thermostat_data = REMOTE_RESPONSE
    /\ self.auth_config_stored

\* C7: when the cache holds an unexpired entry for the thermostat URL,
\* get_thermostat_data (called as the tests call it, without asking for a
\* refresh) makes no remote request, leaves the entry and its
\* request_timestamp as they were, and thermostat_data equals the remote
\* response afterwards; this is so whichever request populated the cache.
C7_Pre ==
    /\ Called_("get_thermostat_data")
    /\ ~last.arg.refresh
    /\ \E e \in EntriesBefore : Fresh(last.pre, e, UpdateFrequency)

C7_CachedDataWhenPossible ==
    C7_Pre =>
        /\ last.err = NoError
        /\ last.remote = 0
        /\ self.cache = last.pre.cache
        /\ self.now = last.pre.now
        /\ self.thermostat_data = REMOTE_RESPONSE

\* The cache was emptied and repopulated by a later request, the held data was
\* reset, and the credentials have lapsed since: the cached data is still used.
C7_Witness ==
    /\ C7_Pre
    /\ \E e \in EntriesBefore : e.request_timestamp >= 2
    /\ last.pre.thermostat_data = None
    /\ ~last.pre.access_token
    /\ self.thermostat_data = REMOTE_RESPONSE

\* C8, as stated: with no cache entry for the thermostat URL,
\* get_thermostat_data makes a remote request and stores a new entry stamped
\* later than every entry stored before, and thermostat_data equals the remote
\* response afterwards.
C8_Pre ==
    /\ Called_("get_thermostat_data")
    /\ EntriesBefore = {}

C8_Original ==
    C8_Pre =>
        /\ last.remote = 1
        /\ StoredNewEntry
        /\ self.thermostat_data = REMOTE_RESPONSE

\* C8, amended: with no cache entry for the thermostat URL, get_thermostat_data
\* makes one remote request; if the request is authorized (the call returns) it
\* stores a new entry stamped later than every entry stored before and
\* thermostat_data equals the remote response afterwards; if the request is
\* refused (the call raises) no entry is stored.
C8_CacheMissStoresLaterEntry ==
    C8_Pre =>
        /\ last.remote = 1
        /\ last.err = NoError =>
                (StoredNewEntry /\ self.thermostat_data = REMOTE_RESPONSE)
        /\ last.err # NoError =>
                (EntriesAfter = {} /\ last.err \in HTTPErrors)

\* A second request, after the entry of a first one was removed.
C8_Witness ==
    /\ C8_Pre
    /\ last.err = NoError
    /\ last.pre.stored_max >= 1
    /\ StoredNewEntry
    /\ self.thermostat_data = REMOTE_RESPONSE

\* C9: with an empty cache, at stage REFRESH_TOKENS with a valid refresh token
\* and no access token, or at stage REQUEST_TOKENS with a valid authorization
\* code and neither token, get_thermostat_data reauthorizes and still fetches
\* the data: thermostat_data equals the remote response, the access token is
\* set (and the refresh token, in the REQUEST_TOKENS case), and the cache holds
\* a fresh entry.
C9_PreRefresh ==
    /\ last.pre.authorization_stage = "REFRESH_TOKENS"
    /\ last.pre.refresh_token
    /\ ~last.pre.access_token

C9_PreRequest ==
    /\ last.pre.authorization_stage = "REQUEST_TOKENS"
    /\ last.pre.authorization_code
    /\ ~last.pre.refresh_token
    /\ ~last.pre.access_token

C9_Pre ==
    /\ Called_("get_thermostat_data")
    /\ last.pre.cache = {}
    /\ (C9_PreRefresh \/ C9_PreRequest)

C9_RecoversFromLapsedAuthorization ==
    C9_Pre =>
        /\ last.err = NoError
        /\ last.reauth = 1
        /\ last.remote = 1
        /\ self.thermostat_data = REMOTE_RESPONSE
        /\ self.access_token
        /\ self.refresh_token
        /\ self.authorization_stage = "AUTHORIZED"
        /\ StoredNewEntry
        /\ \A e \in EntriesAfter : Fresh(self, e, UpdateFrequency)

C9_Witness ==
    /\ C9_Pre
    /\ C9_PreRequest
    /\ last.pre.auth_config_path # NoPath
    /\ last.pre.thermostat_data = None
    /\ self.thermostat_data = REMOTE_RESPONSE
    /\ self.refresh_token

\* C10: after configure, with the authorization code and both tokens invalid
\* and the cache empty, get_thermostat_data raises HTTPError to its caller and
\* stores no data: ecobee_data is still None, the cache is still empty and
\* thermostat_data is what it was.
C10_Pre ==
    /\ Called_("get_thermostat_data")
    /\ last.pre.auth_config_path # NoPath
    /\ ~last.pre.authorization_code
    /\ ~last.pre.refresh_token
    /\ ~last.pre.access_token
    /\ last.pre.ecobee_data = None
    /\ last.pre.cache = {}

C10_NoAuthorizationRaises ==
    C10_Pre =>
        /\ last.err \in HTTPErrors
        /\ self.ecobee_data = None
        /\ self.cache = {}
        /\ self.thermostat_data = last.pre.thermostat_data
        /\ CredentialsUnchanged

C10_Witness ==
    /\ C10_Pre
    /\ last.pre.authorization_stage = "AUTHORIZED"
    /\ last.pre.auth_config_stored
    /\ last.err = ErrRemote
    /\ self.ecobee_data = None

---------------------------------------------------------------------------
(* Reading points *)

\* The interface can make a remote request without reauthorizing.
Authorized(s) == s.authorization_stage = "AUTHORIZED" /\ s.access_token

Missing(thermostat_data) == thermostat_data = None

Malformed(thermostat_data) ==
    \E i \in 1..Len(MalformedData) : thermostat_data = MalformedData[i]

\* The register read by the last get_point.
PointRead == get_register_by_name(last.pre, last.arg)

\* The last call returned the value the tests expect of the point.
ReturnedExpected ==
    /\ last.err = NoError
    /\ last.arg \in DOMAIN ExpectedValues
    /\ last.ret = ExpectedValues[last.arg]

\* The last call replaced the cache entry of the thermostat URL by one of a
\* later request.
EntryRenewed ==
    /\ last.remote = 1
    /\ Cardinality(EntriesAfter) = 1
    /\ \A e \in EntriesAfter :
        /\ e.request_response = REMOTE_RESPONSE
        /\ \A e0 \in EntriesBefore :
            e.request_timestamp > e0.request_timestamp

C11_Pre ==
    /\ Called_("get_point")
    /\ PointRead.readable
    /\ Missing(last.pre.thermostat_data) \/ Malformed(last.pre.thermostat_data)

C11_Refreshed ==
    /\ ReturnedExpected
    /\ self.thermostat_data = REMOTE_RESPONSE
    /\ Malformed(last.pre.thermostat_data) => EntryRenewed

C12_Pre ==
    /\ Called_("get_point")
    /\ ~PointRead.readable

\* A readable point of the same registry is read from data that holds it.
C12_ReadablePre ==
    /\ Called_("get_point")
    /\ PointRead.readable
    /\ last.pre.thermostat_data = REMOTE_RESPONSE

\* C12: get_point on a point registered with Readable = False raises
\* RuntimeError "Requested read of write-only point <name>", for hold and
\* setting points alike and whatever the Writable flag, although the data holds
\* a value for it; it changes nothing.  Readable points of the same registry
\* still return their values.
C12_UnreadableRaises ==
    /\ C12_Pre =>
        /\ last.err = ErrWriteOnly(last.arg)
        /\ last.ret = None
        /\ self = last.pre
    /\ C12_ReadablePre => ReturnedExpected

C12_Witness ==
    /\ C12_Pre
    /\ last.arg = "testHoldNoRead"
    /\ PointRead.register_type = "hold"
    /\ ~PointRead.read_only
    /\ last.pre.thermostat_data = REMOTE_RESPONSE
    /\ "hold2" \in DOMAIN REMOTE_RESPONSE.thermostatList[1].runtime
    /\ last.err = "RuntimeError: Requested read of write-only point testHoldNoRead"

\* The same for a setting point that is not writable either.
C12_WitnessSetting ==
    /\ C12_Pre
    /\ last.arg = "testSettingNoRead"
    /\ PointRead.register_type = "setting"
    /\ PointRead.read_only
    /\ last.err # NoError

---------------------------------------------------------------------------
(* Scraping *)

\* The point names of the readable registers of the interface.
ReadablePoints(s) ==
    {s.registers[i].point_name :
        i \in {j \in 1..Len(s.registers) : s.registers[j].readable}}

BuiltinPoints == {"Status", "Vacations", "Programs"}

\* The keys of the mapping returned are exactly the readable points.
ScrapedKeys ==
    /\ DOMAIN last.ret = ReadablePoints(self)
    /\ BuiltinPoints \subseteq DOMAIN last.ret
    /\ \A point_name \in DOMAIN last.ret :
        get_register_by_name(self, point_name).readable

\* The mapping returned has exactly the readable points as keys, each with the
\* value the tests expect.
ScrapedExpected ==
    /\ last.err = NoError
    /\ ScrapedKeys
    /\ \A point_name \in DOMAIN last.ret :
        last.ret[point_name] = ExpectedValues[point_name]

C13_Pre ==
    /\ Called_("_scrape_all")
    /\ last.pre.registers # <<>>

\* The data held is the remote response, or there is none and the cache is
\* empty.
C13_Held == last.pre.thermostat_data = REMOTE_RESPONSE

C13_Empty ==
    /\ Missing(last.pre.thermostat_data)
    /\ last.pre.cache = {}

C13_Scraped ==
    /\ ScrapedExpected
    /\ self.thermostat_data = REMOTE_RESPONSE
    /\ C13_Empty => (last.remote = 1 /\ Cardinality(EntriesAfter) = 1)
    /\ C13_Held => (last.remote = 0 /\ self = last.pre)

---------------------------------------------------------------------------
(* Registers *)

\* The entries of a registry that name a point and a supported type.
Buildable(registry_config) ==
    {i \in 1..Len(registry_config) :
        /\ "Point_Name" \in DOMAIN registry_config[i]
        /\ registry_config[i].Type \in {"hold", "setting"}}

\* The point names the interface has registers for after configure with the
\* registry.
ExpectedRegisters(registry_config) ==
    {registry_config[i].Volttron_Point_Name : i \in Buildable(registry_config)}
        \cup BuiltinPoints

C14_Pre ==
    /\ Called_("configure")
    /\ last.arg.DEVICE_ID.isint

---------------------------------------------------------------------------
(* The cache *)

\* The URLs the cache has an entry for.
CachedUrls(s) == {e.url : e \in s.cache}

DataCalls == {"get_thermostat_data", "get_point", "_scrape_all", "configure"}

\* C15: the cache holds at most one entry per URL after any sequence of
\* get_thermostat_data, get_point and _scrape_all calls; a refresh replaces the
\* entry of the thermostat URL instead of adding one, and no call of the
\* interface removes an entry.
C15_OneEntryPerUrl ==
    /\ \A url \in CachedUrls(self) : Cardinality(Entries(self, url)) = 1
    /\ last.op \in DataCalls =>
        /\ CachedUrls(last.pre) \subseteq CachedUrls(self)
        /\ (last.remote = 1 /\ last.err = NoError) =>
            /\ Cardinality(EntriesAfter) = 1
            /\ \A e \in EntriesAfter : e.request_timestamp = self.now
        /\ (last.remote = 0 \/ last.err # NoError) =>
            self.cache = last.pre.cache

\* A get_point refreshed the data while the cache held an entry stored at an
\* earlier time.
C15_Witness ==
    /\ Called_("get_point")
    /\ last.remote = 1
    /\ last.err = NoError
    /\ \E e \in EntriesBefore : e.request_timestamp < self.now
    /\ Cardinality(self.cache) = 1

---------------------------------------------------------------------------
(* Empty values *)

C16_Pre ==
    /\ Called_("get_point")
    /\ last.arg \in BuiltinPoints
    /\ last.pre.thermostat_data = empty_response

\* C16: when the data has equipmentStatus = "" and events = [], get_point
\* returns the empty list for Status, for Vacations and for Programs, without
\* refreshing; the Status list never contains an empty string.
C16_EmptyValues ==
    /\ C16_Pre =>
        /\ last.err = NoError
        /\ last.ret = <<>>
        /\ self = last.pre
    /\ (Called_("get_point") /\ last.arg = "Status" /\ last.err = NoError) =>
        \A i \in 1..Len(last.ret) : last.ret[i] # <<>>

C16_Witness ==
    /\ C16_Pre
    /\ last.arg = "Status"
    /\ last.pre.thermostat_data.thermostatList[1].equipmentStatus = <<>>
    /\ Split(<<>>, ",") = << <<>> >>
    /\ last.ret = <<>>

---------------------------------------------------------------------------
(* configure with an invalid device identifier *)

C17_Pre ==
    /\ Called_("configure")
    /\ ~last.arg.DEVICE_ID.isint

\* C17: configure with a DEVICE_ID that is not an int raises ValueError
\* "Ecobee driver requires Ecobee device identifier as int, got: ..."; the
\* interface is left as it was and no remote request is made.
C17_InvalidIdRaises ==
    C17_Pre =>
        /\ last.err = ErrDeviceId
        /\ last.remote = 0
        /\ self = last.pre

C17_Witness ==
    /\ C17_Pre
    /\ last.arg.DEVICE_ID.str = "woops"
    /\ last.registry = VALID_ECOBEE_REGISTRY
    /\ last.err = ErrDeviceId
    /\ self.auth_config_path = NoPath

---------------------------------------------------------------------------
(* The Tester agent *)

C18_Pre == Called_("Tester.onstart")

\* The configuration the latest configure before the last call worked with:
\* the defaults of the constructor, overlaid by the contents it was given.
LatestConfig ==
    Update(last.pre.default_config,
           last.pre.configured[Len(last.pre.configured)])

\* The calls made and the files written by the last call.
NewRpcCalls ==
    {self.rpc_calls[i] : i \in (Len(last.pre.rpc_calls) + 1)..Len(self.rpc_calls)}
NewlyWritten == self.written \ last.pre.written

\* C18: a configuration exists at startup, so configure is called before
\* onstart; the calls of the historian and the output file of onstart use the
\* historian_vip and the output_path the latest configure set, not the values
\* held before it.
C18_OnStartUsesLatestConfigure ==
    C18_Pre =>
        /\ Len(last.pre.configured) >= 1
        /\ NewRpcCalls # {}
        /\ \A call \in NewRpcCalls : call.peer = LatestConfig["historian_vip"]
        /\ NewlyWritten \subseteq {LatestConfig["output"]}
        /\ last.err = NoError =>
            /\ Cardinality(NewRpcCalls) = 2
            /\ NewlyWritten = {LatestConfig["output"]}

\* The constructor was given platform.historian and historian_output; a stored
\* configuration and an update named others, and onstart used the latter.
C18_Witness ==
    /\ C18_Pre
    /\ last.err = NoError
    /\ self.default_config =
        Dict(ConfigKeys, "platform.historian", "historian_output")
    /\ Len(last.pre.configured) = 2
    /\ last.pre.configured[1] = Dict({"historian_vip"}, "other.historian", "")
    /\ \A call \in NewRpcCalls : call.peer = "other.historian"
    /\ self.written = {"other_output"}

---------------------------------------------------------------------------
(* Remote requests *)

\* The calls that are, or may make, one call of get_data_remote.
RequestCalls == {"get_data_remote", "get_thermostat_data"}

\* The last call made a remote request.
Requested == last.op \in RequestCalls /\ last.remote = 1

C19_Pre == Requested /\ ~Authorized(last.pre)

\* C19: get_data_remote calls update_authorization only when the stage is not
\* AUTHORIZED or the access token is missing, and once; if the interface is
\* still not AUTHORIZED with an access token afterwards the request raises
\* HTTPError and is not tried again.  Every request ends, with the response or
\* with an HTTPError.
C19_ReauthorizesAtMostOnce ==
    last.op \in RequestCalls =>
        /\ last.remote <= 1
        /\ last.reauth = (IF C19_Pre THEN 1 ELSE 0)
        /\ (Requested /\ ~Authorized(self)) => last.err \in HTTPErrors
        /\ last.err \in HTTPErrors \cup {NoError}

\* The update changed nothing (the stage is AUTHORIZED, the token missing), and
\* the request was refused.
C19_Witness ==
    /\ Called_("get_data_remote")
    /\ C19_Pre
    /\ last.reauth = 1
    /\ ~Authorized(self)
    /\ self.authorization_stage = "AUTHORIZED"
    /\ last.err = ErrRemote

\* The data held by the interface is as it was before the last call.
DataUnchanged ==
    /\ self.thermostat_data = last.pre.thermostat_data
    /\ self.ecobee_data = last.pre.ecobee_data
    /\ self.cache = last.pre.cache

\* C20: get_data_remote returns the remote response only when, as it returns,
\* the stage is AUTHORIZED and the access token is set, and raises otherwise;
\* so a request made without a valid access token stores nothing in
\* thermostat_data or in the cache.
C20_ResponseOnlyWhenAuthorized ==
    /\ Requested =>
        /\ last.err = NoError => (Authorized(self) /\ last.ret = REMOTE_RESPONSE)
        /\ ~Authorized(self) => (last.err \in HTTPErrors /\ DataUnchanged)
    /\ (last.op \in InterfaceCalls /\ self.cache # last.pre.cache) =>
        Authorized(self)

\* A request refused although a token had been held: the data stored earlier
\* is untouched.
C20_Witness ==
    /\ Called_("get_thermostat_data")
    /\ Requested
    /\ last.pre.authorization_stage = "AUTHORIZED"
    /\ ~last.pre.access_token
    /\ last.err = ErrRemote
    /\ last.pre.thermostat_data = REMOTE_RESPONSE
    /\ DataUnchanged

---------------------------------------------------------------------------
(* Credentials *)

HandshakeCalls == {"authorize_application", "request_tokens", "refresh_tokens"}

C21_Pre == last.op \in HandshakeCalls

\* The last call put the stage at AUTHORIZED.
Authorizing ==
    /\ self.authorization_stage = "AUTHORIZED"
    /\ \/ last.pre.authorization_stage # "AUTHORIZED"
       \/ (last.op \in {"request_tokens", "refresh_tokens"} /\ last.err = NoError)

\* C21: a call of authorize_application, request_tokens or refresh_tokens,
\* whether it succeeds or fails, leaves set every credential that was set, so
\* that from a new interface the credentials only go from unset to set; and
\* when such a call has put the stage at AUTHORIZED, the access token and the
\* refresh token are both set.
C21_CredentialsOnlySet ==
    C21_Pre =>
        /\ last.pre.authorization_code => self.authorization_code
        /\ last.pre.refresh_token => self.refresh_token
        /\ last.pre.access_token => self.access_token
        /\ Authorizing => (self.access_token /\ self.refresh_token)

C21_Witness ==
    /\ Called_("request_tokens")
    /\ last.pre.authorization_stage = "REQUEST_TOKENS"
    /\ last.pre.authorization_code
    /\ ~last.pre.refresh_token
    /\ ~last.pre.access_token
    /\ ~last.pre.auth_config_stored
    /\ last.pre.cache = {}
    /\ Authorizing
    /\ self.authorization_code /\ self.refresh_token /\ self.access_token

---------------------------------------------------------------------------
(* The Tester agent's configuration *)

C23_Pre == Called_("Tester.configure")

\* The value of a key after a callback: that of the contents if they have the
\* key, else the one the constructor was given.
Overlaid(key, default) ==
    IF key \in DOMAIN last.arg THEN last.arg[key] ELSE default

\* C23: after every NEW or UPDATE callback historian_vip and output_path are
\* the contents of that callback overlaid on the constructor's arguments;
\* default_config is never changed, so a key the latest contents omit is back
\* at the constructor's value and does not keep that of an earlier update.
C23_LatestContentsOverDefaults ==
    /\ self.default_config =
        Dict(ConfigKeys, self.constructed.historian_vip,
             self.constructed.output_path)
    /\ C23_Pre =>
        /\ self.historian_vip =
            Overlaid("historian_vip", self.constructed.historian_vip)
        /\ self.output_path = Overlaid("output", self.constructed.output_path)
        /\ self.constructed = last.pre.constructed

\* An update without historian_vip, after one that had set another historian.
C23_Witness ==
    /\ C23_Pre
    /\ Len(self.configured) >= 2
    /\ "historian_vip" \notin DOMAIN last.arg
    /\ "output" \in DOMAIN last.arg
    /\ last.pre.historian_vip # self.constructed.historian_vip
    /\ self.historian_vip = self.constructed.historian_vip
    /\ self.output_path # self.constructed.output_path

---------------------------------------------------------------------------
(* The periodic lookup of the TestAgent *)

\* What one run of lookup_data was given and what it left behind.
BothReturned == last.arg.topics = RpcReturned /\ last.arg.data = RpcReturned
Appended == self.file # last.pre.file
Printed == Len(self.printed) = Len(last.pre.printed) + 1
Escaped == last.err # NoError
Failing == last.arg.written < Len(Pieces) \/ last.pre.output_path = ""

\* C22: TestAgent.lookup_data never lets an exception escape to the
\* scheduler: when either historian call (or the file write) fails the
\* failure is printed, the method returns normally, and the output file is
\* appended to only when both get_topic_list and query have returned, so a
\* run in which either call fails appends nothing.  The code does not do
\* this: the query is awaited with get(timeout=10), whose Timeout is not an
\* Exception, and `except Exception` lets it through.
C22_NoExceptionEscapes ==
    Called_("lookup_data") =>
        /\ ~Escaped
        /\ Appended => BothReturned
        /\ ~BothReturned => (~Appended /\ Printed)
        /\ (BothReturned /\ Failing) => Printed

\* The run that diverges: get_topic_list returned, the query timed out, and
\* the Timeout left lookup_data with nothing printed and nothing appended.
C22_TimeoutEscapes ==
    /\ Called_("lookup_data")
    /\ last.arg.topics = RpcReturned
    /\ last.arg.data = RpcTimeout
    /\ last.err = RpcTimeout
    /\ ~Appended
    /\ self.printed = last.pre.printed

\* What the code does keep: every failure of class Exception is caught and
\* printed, and the file is appended to only after both calls returned.
C22_ExceptionsCaught ==
    Called_("lookup_data") =>
        /\ Escaped <=> last.arg.data = RpcTimeout /\ last.arg.topics = RpcReturned
        /\ Appended => BothReturned
        /\ (~BothReturned /\ ~Escaped) => (~Appended /\ Printed)
        /\ (BothReturned /\ Failing) => Printed
        /\ (BothReturned /\ ~Failing) =>
               self.file = last.pre.file \o Pieces /\ ~Printed

=============================================================================
